---- MODULE Spec2Model ----
(***************************************************************************)
(* Model of the teleport-request plugin TpaPlugin (tpa_plugin.py).         *)
(* The plugin keeps one dictionary, _requests, from the name of a target   *)
(* player to the pair (requester, expiry task).  It is driven by three     *)
(* commands (/tpa, /tpaccept, /tpdeny), the player-quit event, the         *)
(* scheduled expire() closures and the enable / disable hooks.  The host   *)
(* (player list, messages, teleport, scheduler) is modelled by the         *)
(* variables online, sess, tasks, out, teleports and cancelled.            *)
(***************************************************************************)
EXTENDS Integers, Sequences, FiniteSets, TLC

\* ---------------------------------------------------------------- bounds
Players == {"A", "B", "C"}      \* the names of the players of the server
TickStep == 600                 \* server ticks that pass in one Tick step
MaxTasks == 2                   \* tasks a scheduler with weak cancellation
                                \* holds at one time

\* -------------------------------------------------------------- constants
ExpiryDelay == 20 * 60          \* delay=20 * 60 passed to run_task

VARIABLES
    enabled,    \* the plugin is between on_enable and on_disable
    strict,     \* the scheduler never runs a cancelled task
    online,     \* online[n]: a player named n is connected
    sess,       \* sess[n]: which Player object of name n is the current one
    requests,   \* self._requests, in insertion order: [key, requester, task]
    tasks,      \* the tasks the scheduler or the dictionary still holds
    call,       \* the handler that ran in the last step and its arguments
    outcome,    \* the branch the last handler took
    out,        \* the messages the last step sent, in order
    teleports,  \* the teleports the last step performed, in order
    cancelled   \* the task.cancel() calls of the last step, in order

vars == <<enabled, strict, online, sess, requests, tasks,
          call, outcome, out, teleports, cancelled>>

\* ------------------------------------------------------------ host objects
\* get_player's "no such player"
None == [name |-> "None", sess |-> 0]

\* The Player object of the connected player named n.  A player who
\* reconnects is a new object with the same name.
Player(n) == [name |-> n, sess |-> sess[n]]

\* a lookup that also finds the players who have left
get_player_any(n) == IF n \in Players THEN Player(n) ELSE None

\* self.server.get_player(name)
get_player(n) == IF n \in Players /\ online[n] THEN Player(n) ELSE None

\* The request a message is about: the key of its dictionary entry and its
\* task.
Req(key, task) == [key |-> key, task |-> task]

\* a message about no request
NoReq == Req("", 0)

\* x.send_message(...): text is the kind of message, name the player name
\* formatted into it, req the request the message is about.
Msg(to, text, name, req) == [to |-> to, text |-> text, name |-> name, req |-> req]

\* requester.teleport(sender)
Teleport(who, dest) == [who |-> who, to |-> dest]

\* ------------------------------------------------------------- dictionary
\* n in self._requests
has(reqs, n) == \E i \in 1..Len(reqs) : reqs[i].key = n

\* self._requests[n]
get(reqs, n) == reqs[CHOOSE i \in 1..Len(reqs) : reqs[i].key = n]

\* pop that leaves the entry in the dictionary
pop_keep(reqs, n) == reqs

\* a pop that also drops the entries the player n requested
pop_both(reqs, n) ==
    LET others(e) == e.key # n /\ e.requester.name # n IN SelectSeq(reqs, others)

\* self._requests.pop(n) / del self._requests[n]: the dictionary left
pop(reqs, n) ==
    LET others(e) == e.key # n IN SelectSeq(reqs, others)

\* a store that keeps one request per requester: the new entry replaces the
\* entry the sender had
store_single(reqs, n, sender, task) ==
    LET others(e) == e.requester # sender /\ e.key # n
    IN  Append(SelectSeq(reqs, others),
               [key |-> n, requester |-> sender, task |-> task])

\* self._requests[n] = (sender, task)
store(reqs, n, sender, task) ==
    LET e == [key |-> n, requester |-> sender, task |-> task] IN
    IF has(reqs, n)
    THEN [i \in 1..Len(reqs) |-> IF reqs[i].key = n THEN e ELSE reqs[i]]
    ELSE Append(reqs, e)

\* the keys of the dictionary
keys(reqs) == {reqs[i].key : i \in 1..Len(reqs)}

\* -------------------------------------------------------------- scheduler
\* the handle run_task returns: the first one not in use
new_task(ts) == CHOOSE h \in 1..(Cardinality(DOMAIN ts) + 1) :
                    h \notin DOMAIN ts /\ \A g \in 1..(h - 1) : g \in DOMAIN ts

\* self.server.scheduler.run_task(self, expire, delay=20 * 60), with the
\* target and sender the closure expire captures
run_task(ts, target, sender) ==
    LET h == new_task(ts) IN
    [g \in DOMAIN ts \cup {h} |->
        IF g = h THEN [target |-> target, sender |-> sender,
                       left |-> ExpiryDelay, state |-> "scheduled"]
        ELSE ts[g]]

\* cancel that does nothing
cancel_noop(ts, h) == ts

\* task.cancel().  A cancelled task has no due time any more: a scheduler
\* that still runs it may do so at any later moment.
cancel(ts, h) ==
    [ts EXCEPT ![h].state = IF @ = "scheduled" THEN "cancelled" ELSE @,
               ![h].left = 0]

\* the record of one task.cancel() call: the task and its state at the call
Cancelled(ts, h) == [task |-> h, was |-> ts[h].state]

\* a task the scheduler may still run
Pending(t) == t.state = "scheduled" \/ (~strict /\ t.state = "cancelled")

\* The cancelled task a scheduler with weak cancellation fails to drop: it
\* holds one at a time, the one with the first handle.
Stale(ts) ==
    {g \in DOMAIN ts :
        /\ ~strict /\ ts[g].state = "cancelled"
        /\ \A f \in DOMAIN ts : ts[f].state = "cancelled" => g <= f}

\* The tasks that still exist after a step: those the scheduler may still
\* run and those the dictionary refers to.
collect(ts, reqs) ==
    [h \in {g \in DOMAIN ts :
              \/ ts[g].state = "scheduled"
              \/ g \in Stale(ts)
              \/ \E i \in 1..Len(reqs) : reqs[i].task = g}
        |-> ts[h]]

\* a task that is scheduled, has not run and was not cancelled
Live(h) == h \in DOMAIN tasks /\ tasks[h].state = "scheduled"

\* The argument lists /tpa is called with: none, or one player name
ArgLists == {<<>>} \cup {<<n>> : n \in Players}

Call(op, who, args, task) == [op |-> op, who |-> who, args |-> args, task |-> task]

NoTasks == [h \in {} |-> 0]

\* ------------------------------------------------------------------- Init
Init ==
    /\ enabled = TRUE
    /\ strict = TRUE
    /\ online = [n \in Players |-> TRUE]
    /\ sess = [n \in Players |-> 0]
    /\ requests = <<>>
    /\ tasks = NoTasks
    /\ call = Call("on_enable", "", <<>>, 0)
    /\ outcome = "Enabled"
    /\ out = <<>>
    /\ teleports = <<>>
    /\ cancelled = <<>>

\* --------------------------------------------------------------- /tpa
\* the two DuplicatePending messages exchanged
duplicate_text_swapped(requester, sender) ==
    IF requester = sender THEN "already_has" ELSE "already_yours"

\* the message of the DuplicatePending branch
duplicate_text(requester, sender) ==
    IF requester = sender THEN "already_yours" ELSE "already_has"

\* validation without the comparison of the two names
tpa_check_noself(reqs, target, sender) ==
    IF target = None THEN "PlayerNotFound"
    ELSE IF has(reqs, target.name) THEN "DuplicatePending"
    ELSE "Sent"

\* validation that looks for a pending entry before it compares the names
tpa_check_dup_first(reqs, target, sender) ==
    IF target = None THEN "PlayerNotFound"
    ELSE IF has(reqs, target.name) THEN "DuplicatePending"
    ELSE IF target.name = sender.name THEN "SelfRequest"
    ELSE "Sent"

\* the validation of /tpa: the branch taken for a resolved target
tpa_check(reqs, target, sender) ==
    IF target = None THEN "PlayerNotFound"
    ELSE IF target.name = sender.name THEN "SelfRequest"
    ELSE IF has(reqs, target.name) THEN "DuplicatePending"
    ELSE "Sent"

handle_tpa(s, args) ==
    LET sender == Player(s) IN
    /\ enabled /\ online[s]
    /\ call' = Call("tpa", s, args, 0)
    /\ teleports' = <<>>
    /\ cancelled' = <<>>
    /\ UNCHANGED <<enabled, strict, online, sess>>
    /\ IF Len(args) # 1 THEN
            /\ out' = <<Msg(sender, "usage", "", NoReq)>>
            /\ outcome' = "Usage"
            /\ UNCHANGED <<requests, tasks>>
       ELSE LET target == get_player(args[1])
                branch == tpa_check(requests, target, sender)
                task == new_task(tasks)
            IN
            /\ outcome' = branch
            /\ CASE branch = "PlayerNotFound" ->
                    /\ out' = <<Msg(sender, "not_found", "", NoReq)>>
                    /\ UNCHANGED <<requests, tasks>>
                 [] branch = "SelfRequest" ->
                    /\ out' = <<Msg(sender, "self", "", NoReq)>>
                    /\ UNCHANGED <<requests, tasks>>
                 [] branch = "DuplicatePending" ->
                    /\ out' = <<Msg(sender,
                                    duplicate_text(get(requests, target.name).requester,
                                                   sender),
                                    "", NoReq)>>
                    /\ UNCHANGED <<requests, tasks>>
                 [] branch = "Sent" ->
                    /\ strict \/ Cardinality(DOMAIN tasks) < MaxTasks
                    /\ out' = <<Msg(sender, "sent", target.name, Req(target.name, task)),
                                Msg(target, "requested", sender.name, Req(target.name, task))>>
                    /\ requests' = store(requests, target.name, sender, task)
                    /\ tasks' = collect(run_task(tasks, target, sender), requests')

\* ------------------------------------------------------------ expire()
\* a guard that never lets expire() act
expire_guard_never(reqs, target, sender) == FALSE

\* a guard that only looks for an entry of the target
expire_guard_key_only(reqs, target, sender) == has(reqs, target.name)

\* the guard of expire()
expire_guard(reqs, target, sender) ==
    has(reqs, target.name) /\ get(reqs, target.name).requester = sender

expire(h) ==
    /\ h \in DOMAIN tasks
    /\ Pending(tasks[h])
    /\ tasks[h].left = 0
    /\ LET target == tasks[h].target
           sender == tasks[h].sender
           ran == [tasks EXCEPT ![h].state = "ran"]
       IN
       /\ call' = Call("expire", target.name, <<>>, h)
       /\ teleports' = <<>>
       /\ cancelled' = <<>>
       /\ UNCHANGED <<enabled, strict, online, sess>>
       /\ IF expire_guard(requests, target, sender) THEN
               /\ requests' = pop(requests, target.name)
               /\ out' = <<Msg(sender, "expired", "", Req(target.name, h)),
                           Msg(target, "expired", "", Req(target.name, h))>>
               /\ outcome' = "Expired"
          ELSE
               /\ UNCHANGED requests
               /\ out' = <<>>
               /\ outcome' = "Stale"
       /\ tasks' = collect(ran, requests')

\* /tpaccept whose "no pending request" branch drops the requests the
\* sender has sent
handle_tpaccept_drops(s) ==
    LET sender == Player(s)
        others(e) == e.requester # sender
    IN
    /\ enabled /\ online[s]
    /\ call' = Call("tpaccept", s, <<>>, 0)
    /\ UNCHANGED <<enabled, strict, online, sess>>
    /\ IF ~has(requests, sender.name) THEN
            /\ out' = <<Msg(sender, "no_pending", "", NoReq)>>
            /\ outcome' = "NoPendingRequest"
            /\ teleports' = <<>>
            /\ cancelled' = <<>>
            /\ requests' = SelectSeq(requests, others)
            /\ tasks' = collect(tasks, requests')
       ELSE LET requester == get(requests, sender.name).requester
                task == get(requests, sender.name).task
            IN
            /\ requests' = pop(requests, sender.name)
            /\ cancelled' = <<Cancelled(tasks, task)>>
            /\ tasks' = collect(cancel(tasks, task), requests')
            /\ out' = <<Msg(requester, "accepted", sender.name, Req(sender.name, task)),
                        Msg(sender, "you_accepted", requester.name, Req(sender.name, task))>>
            /\ teleports' = <<Teleport(requester, sender)>>
            /\ outcome' = "Accepted"

\* ----------------------------------------------------------- /tpaccept
handle_tpaccept(s) ==
    LET sender == Player(s) IN
    /\ enabled /\ online[s]
    /\ call' = Call("tpaccept", s, <<>>, 0)
    /\ UNCHANGED <<enabled, strict, online, sess>>
    /\ IF ~has(requests, sender.name) THEN
            /\ out' = <<Msg(sender, "no_pending", "", NoReq)>>
            /\ outcome' = "NoPendingRequest"
            /\ teleports' = <<>>
            /\ cancelled' = <<>>
            /\ UNCHANGED <<requests, tasks>>
       ELSE LET requester == get(requests, sender.name).requester
                task == get(requests, sender.name).task
            IN
            /\ requests' = pop(requests, sender.name)
            /\ cancelled' = <<Cancelled(tasks, task)>>
            /\ tasks' = collect(cancel(tasks, task), requests')
            /\ out' = <<Msg(requester, "accepted", sender.name, Req(sender.name, task)),
                        Msg(sender, "you_accepted", requester.name, Req(sender.name, task))>>
            /\ teleports' = <<Teleport(requester, sender)>>
            /\ outcome' = "Accepted"

\* /tpdeny that teleports as /tpaccept does
handle_tpdeny_teleports(s) ==
    LET sender == Player(s) IN
    /\ enabled /\ online[s]
    /\ call' = Call("tpdeny", s, <<>>, 0)
    /\ UNCHANGED <<enabled, strict, online, sess>>
    /\ IF ~has(requests, sender.name) THEN
            /\ out' = <<Msg(sender, "no_pending", "", NoReq)>>
            /\ outcome' = "NoPendingRequest"
            /\ teleports' = <<>>
            /\ cancelled' = <<>>
            /\ UNCHANGED <<requests, tasks>>
       ELSE LET requester == get(requests, sender.name).requester
                task == get(requests, sender.name).task
            IN
            /\ requests' = pop(requests, sender.name)
            /\ cancelled' = <<Cancelled(tasks, task)>>
            /\ tasks' = collect(cancel(tasks, task), requests')
            /\ out' = <<Msg(requester, "denied", sender.name, Req(sender.name, task)),
                        Msg(sender, "you_denied", requester.name, Req(sender.name, task))>>
            /\ teleports' = <<Teleport(requester, sender)>>
            /\ outcome' = "Denied"

\* ------------------------------------------------------------- /tpdeny
handle_tpdeny(s) ==
    LET sender == Player(s) IN
    /\ enabled /\ online[s]
    /\ call' = Call("tpdeny", s, <<>>, 0)
    /\ teleports' = <<>>
    /\ UNCHANGED <<enabled, strict, online, sess>>
    /\ IF ~has(requests, sender.name) THEN
            /\ out' = <<Msg(sender, "no_pending", "", NoReq)>>
            /\ outcome' = "NoPendingRequest"
            /\ cancelled' = <<>>
            /\ UNCHANGED <<requests, tasks>>
       ELSE LET requester == get(requests, sender.name).requester
                task == get(requests, sender.name).task
            IN
            /\ requests' = pop(requests, sender.name)
            /\ cancelled' = <<Cancelled(tasks, task)>>
            /\ tasks' = collect(cancel(tasks, task), requests')
            /\ out' = <<Msg(requester, "denied", sender.name, Req(sender.name, task)),
                        Msg(sender, "you_denied", requester.name, Req(sender.name, task))>>
            /\ outcome' = "Denied"

\* ------------------------------------------------------ on_player_quit
\* on_player_quit without its first pass
quit_target_skip(st, player_name) == st

\* a first pass that cancels and notifies but keeps the entry
quit_target_keeps(st, player_name) ==
    IF has(st.requests, player_name) THEN
        LET requester == get(st.requests, player_name).requester
            task == get(st.requests, player_name).task
        IN  [requests |-> st.requests,
             tasks |-> cancel(st.tasks, task),
             cancelled |-> Append(st.cancelled, Cancelled(st.tasks, task)),
             out |-> Append(st.out, Msg(requester, "left", player_name, Req(player_name, task)))]
    ELSE st

\* first pass: the departing player is a target
quit_target(st, player_name) ==
    IF has(st.requests, player_name) THEN
        LET requester == get(st.requests, player_name).requester
            task == get(st.requests, player_name).task
        IN  [requests |-> pop(st.requests, player_name),
             tasks |-> cancel(st.tasks, task),
             cancelled |-> Append(st.cancelled, Cancelled(st.tasks, task)),
             out |-> Append(st.out, Msg(requester, "left", player_name, Req(player_name, task)))]
    ELSE st

\* on_player_quit without its second pass
to_cancel_none(reqs, player_name) == <<>>

\* to_cancel = [n for n, (req, _) in self._requests.items() if req.name == player_name]
to_cancel(reqs, player_name) ==
    LET mine(e) == e.requester.name = player_name
        found == SelectSeq(reqs, mine)
    IN  [i \in 1..Len(found) |-> found[i].key]

\* second pass: the departing player is a requester
RECURSIVE quit_requester(_, _, _)
quit_requester(st, names, player_name) ==
    IF names = <<>> THEN st
    ELSE LET target_name == Head(names)
             task == get(st.requests, target_name).task
             player == get_player(target_name)
         IN  quit_requester(
                [requests |-> pop(st.requests, target_name),
                 tasks |-> cancel(st.tasks, task),
                 cancelled |-> Append(st.cancelled, Cancelled(st.tasks, task)),
                 out |-> IF player # None
                         THEN Append(st.out, Msg(player, "left", player_name, Req(target_name, task)))
                         ELSE st.out],
                Tail(names), player_name)

\* an on_player_quit whose second pass is skipped when the first one acted
on_player_quit_elif(p) ==
    LET st0 == [requests |-> requests, tasks |-> tasks,
                cancelled |-> <<>>, out |-> <<>>]
        st1 == quit_target(st0, p)
        st2 == IF has(requests, p) THEN st1
               ELSE quit_requester(st1, to_cancel(st1.requests, p), p)
    IN
    /\ online[p]
    /\ online' = [online EXCEPT ![p] = FALSE]
    /\ call' = Call("quit", p, <<>>, 0)
    /\ outcome' = "Quit"
    /\ teleports' = <<>>
    /\ UNCHANGED <<enabled, strict, sess>>
    /\ IF enabled THEN
            /\ requests' = st2.requests
            /\ tasks' = collect(st2.tasks, st2.requests)
            /\ out' = st2.out
            /\ cancelled' = st2.cancelled
       ELSE
            /\ out' = <<>>
            /\ cancelled' = <<>>
            /\ UNCHANGED <<requests, tasks>>

on_player_quit(p) ==
    LET st0 == [requests |-> requests, tasks |-> tasks,
                cancelled |-> <<>>, out |-> <<>>]
        st1 == quit_target(st0, p)
        st2 == quit_requester(st1, to_cancel(st1.requests, p), p)
    IN
    /\ online[p]
    /\ online' = [online EXCEPT ![p] = FALSE]
    /\ call' = Call("quit", p, <<>>, 0)
    /\ outcome' = "Quit"
    /\ teleports' = <<>>
    /\ UNCHANGED <<enabled, strict, sess>>
    /\ IF enabled THEN
            /\ requests' = st2.requests
            /\ tasks' = collect(st2.tasks, st2.requests)
            /\ out' = st2.out
            /\ cancelled' = st2.cancelled
       ELSE
            /\ out' = <<>>
            /\ cancelled' = <<>>
            /\ UNCHANGED <<requests, tasks>>

\* The Player objects of name n that the dictionary or a closure still holds
held(n) ==
    {requests[i].requester.sess : i \in {j \in 1..Len(requests) :
                                            requests[j].requester.name = n}}
    \cup {tasks[h].sender.sess : h \in {g \in DOMAIN tasks : tasks[g].sender.name = n}}
    \cup {tasks[h].target.sess : h \in {g \in DOMAIN tasks : tasks[g].target.name = n}}

\* A player (re)connects: the host creates a new Player object, distinct
\* from every object of that name still held.
Join(p) ==
    /\ ~online[p]
    /\ online' = [online EXCEPT ![p] = TRUE]
    /\ sess' = [sess EXCEPT ![p] =
                    CHOOSE k \in 0..Cardinality(held(p)) :
                        k \notin held(p) /\ \A j \in 0..(k - 1) : j \in held(p)]
    /\ call' = Call("join", p, <<>>, 0)
    /\ outcome' = "Joined"
    /\ out' = <<>>
    /\ teleports' = <<>>
    /\ cancelled' = <<>>
    /\ UNCHANGED <<enabled, strict, requests, tasks>>

\* ------------------------------------------------ on_disable / on_enable
\* a loop of on_disable that cancels nothing
disable_loop_skip(st, values) == st

\* for _, task in self._requests.values(): task.cancel()
RECURSIVE disable_loop(_, _)
disable_loop(st, values) ==
    IF values = <<>> THEN st
    ELSE disable_loop(
            [tasks |-> cancel(st.tasks, Head(values).task),
             cancelled |-> Append(st.cancelled, Cancelled(st.tasks, Head(values).task))],
            Tail(values))

\* on_disable that cancels the tasks and forgets to clear the dictionary
on_disable_noclear ==
    LET st == disable_loop([tasks |-> tasks, cancelled |-> <<>>], requests) IN
    /\ enabled
    /\ enabled' = FALSE
    /\ requests' = requests
    /\ tasks' = collect(st.tasks, requests')
    /\ cancelled' = st.cancelled
    /\ call' = Call("on_disable", "", <<>>, 0)
    /\ outcome' = "Disabled"
    /\ out' = <<>>
    /\ teleports' = <<>>
    /\ UNCHANGED <<strict, online, sess>>

on_disable ==
    LET st == disable_loop([tasks |-> tasks, cancelled |-> <<>>], requests) IN
    /\ enabled
    /\ enabled' = FALSE
    /\ requests' = <<>>
    /\ tasks' = collect(st.tasks, requests')
    /\ cancelled' = st.cancelled
    /\ call' = Call("on_disable", "", <<>>, 0)
    /\ outcome' = "Disabled"
    /\ out' = <<>>
    /\ teleports' = <<>>
    /\ UNCHANGED <<strict, online, sess>>

on_enable ==
    /\ ~enabled
    /\ enabled' = TRUE
    /\ requests' = <<>>
    /\ tasks' = collect(tasks, requests')
    /\ call' = Call("on_enable", "", <<>>, 0)
    /\ outcome' = "Enabled"
    /\ out' = <<>>
    /\ teleports' = <<>>
    /\ cancelled' = <<>>
    /\ UNCHANGED <<strict, online, sess>>

\* ------------------------------------------------------------ scheduler
\* TickStep server ticks pass.  The scheduler runs a scheduled task in the
\* tick it is due, so time does not pass while one is due.
Tick ==
    /\ \E h \in DOMAIN tasks : Pending(tasks[h]) /\ tasks[h].left > 0
    /\ \A h \in DOMAIN tasks : tasks[h].state = "scheduled" => tasks[h].left > 0
    /\ tasks' = [h \in DOMAIN tasks |->
                    IF Pending(tasks[h])
                    THEN [tasks[h] EXCEPT !.left =
                            IF @ > TickStep THEN @ - TickStep ELSE 0]
                    ELSE tasks[h]]
    /\ call' = Call("tick", "", <<>>, 0)
    /\ outcome' = "Tick"
    /\ out' = <<>>
    /\ teleports' = <<>>
    /\ cancelled' = <<>>
    /\ UNCHANGED <<enabled, strict, online, sess, requests>>

Next ==
    \/ \E s \in Players, args \in ArgLists : handle_tpa(s, args)
    \/ \E s \in Players : handle_tpaccept(s)
    \/ \E s \in Players : handle_tpdeny(s)
    \/ \E p \in Players : on_player_quit(p)
    \/ \E p \in Players : Join(p)
    \/ \E h \in DOMAIN tasks : expire(h)
    \/ on_disable
    \/ on_enable
    \/ Tick

Spec == Init /\ [][Next]_vars

\* The plugin on a scheduler with weak cancellation: a cancelled task may
\* still run.
InitWeak ==
    /\ enabled = TRUE
    /\ strict = FALSE
    /\ online = [n \in Players |-> TRUE]
    /\ sess = [n \in Players |-> 0]
    /\ requests = <<>>
    /\ tasks = NoTasks
    /\ call = Call("on_enable", "", <<>>, 0)
    /\ outcome = "Enabled"
    /\ out = <<>>
    /\ teleports = <<>>
    /\ cancelled = <<>>

\* The steps that change the dictionary or the scheduler: the commands that
\* are not refused, the departure of a player, the tasks, the enable and
\* disable hooks and the passing of time.  Nobody reconnects.
NextWeak ==
    \/ \E s \in Players, args \in ArgLists : handle_tpa(s, args) /\ outcome' = "Sent"
    \/ \E s \in Players : handle_tpaccept(s) /\ outcome' = "Accepted"
    \/ \E s \in Players : handle_tpdeny(s) /\ outcome' = "Denied"
    \/ \E p \in Players : on_player_quit(p)
    \/ \E h \in DOMAIN tasks : expire(h)
    \/ on_disable
    \/ on_enable
    \/ Tick

SpecWeak == InitWeak /\ [][NextWeak]_vars

\* The scheduler runs every task it holds in the tick the task is due, and
\* ticks keep passing.
FairSpec ==
    /\ Spec
    /\ WF_vars(Tick)
    /\ WF_vars(\E h \in DOMAIN tasks : expire(h))

\* ================================================================ claims
\* how many messages of one kind about one request a step sent to a player
NumMsgs(o, to, text, req) ==
    Cardinality({i \in 1..Len(o) : o[i].to = to /\ o[i].text = text /\ o[i].req = req})

\* the dictionary holds the entry (b -> requester, task)
Entry(reqs, b, requester, task) ==
    has(reqs, b) /\ get(reqs, b).requester = requester /\ get(reqs, b).task = task

\* C1: for connected players a # b with no entry keyed by b, /tpa b by a
\* is Sent and stores (b -> a, live task); a /tpaccept by b issued next is
\* Accepted, removes the entry, cancels its task and teleports a to b, once;
\* a further /tpaccept or /tpdeny by b finds no pending request and
\* teleports nobody.
C1_SubmitThenAccept ==
    [][\A a \in Players, b \in Players :
        /\ ( /\ call' = Call("tpa", a, <<b>>, 0)
             /\ a # b /\ online[b] /\ ~has(requests, b) )
           => /\ outcome' = "Sent"
              /\ has(requests', b)
              /\ get(requests', b).requester = Player(a)
              /\ get(requests', b).task \in DOMAIN tasks'
              /\ tasks'[get(requests', b).task].state = "scheduled"
              /\ \A n \in keys(requests) : get(requests', n) = get(requests, n)
        /\ ( /\ call = Call("tpa", a, <<b>>, 0) /\ outcome = "Sent"
             /\ call' = Call("tpaccept", b, <<>>, 0) )
           => /\ outcome' = "Accepted"
              /\ ~has(requests', b)
              /\ cancelled' = <<[task |-> get(requests, b).task, was |-> "scheduled"]>>
              /\ \A h \in DOMAIN tasks' :
                    ~(tasks'[h].target = Player(b) /\ tasks'[h].state = "scheduled")
              /\ teleports' = <<Teleport(Player(a), Player(b))>>
        /\ ( /\ call = Call("tpaccept", b, <<>>, 0) /\ outcome = "Accepted"
             /\ call' \in {Call("tpaccept", b, <<>>, 0), Call("tpdeny", b, <<>>, 0)} )
           => /\ outcome' = "NoPendingRequest"
              /\ teleports' = <<>>
    ]_vars

\* a request was accepted: its entry is gone, its task was cancelled and
\* the requester was teleported
C1_Witness ==
    /\ call.op = "tpaccept" /\ outcome = "Accepted"
    /\ Len(teleports) = 1 /\ teleports[1].to = Player(call.who)
    /\ Len(cancelled) = 1
    /\ ~has(requests, call.who)

\* C2: in every reachable state the scheduled tasks and the dictionary
\* entries correspond one to one, and every task.cancel() hit a task that
\* was scheduled: none was cancelled twice or after it ran.
C2_TimersMatchEntries ==
    /\ \A i \in 1..Len(requests) : Live(requests[i].task)
    /\ \A i \in 1..Len(requests), j \in 1..Len(requests) :
            requests[i].task = requests[j].task => i = j
    /\ \A h \in DOMAIN tasks :
            tasks[h].state = "scheduled" => \E i \in 1..Len(requests) : requests[i].task = h
    /\ \A k \in 1..Len(cancelled) : cancelled[k].was = "scheduled"
    /\ \A k \in 1..Len(cancelled), l \in 1..Len(cancelled) :
            cancelled[k].task = cancelled[l].task => k = l

\* a step cancelled a task while other requests stay pending
C2_Witness ==
    /\ Len(requests) >= 2
    /\ cancelled # <<>>

\* how many times a step sent exactly the message m
NumMsg(o, m) == Cardinality({i \in 1..Len(o) : o[i] = m})

\* how many task.cancel() calls of a step hit the scheduled task h
NumCancels(c, h) ==
    Cardinality({k \in 1..Len(c) : c[k] = [task |-> h, was |-> "scheduled"]})

\* C3: when the task of a request (b -> a) that is still in the dictionary
\* runs, the entry keyed by b is removed and a and b each get the "expired"
\* message once; an "expired" message is only ever sent by the expire() of
\* a request that is in the dictionary and leaves it in that step; and with
\* a scheduler that runs every task it holds, every pending entry is
\* eventually removed.
C3_Expiry ==
    /\ [][/\ \A h \in DOMAIN tasks :
                ( /\ call' = Call("expire", tasks[h].target.name, <<>>, h)
                  /\ Entry(requests, tasks[h].target.name, tasks[h].sender, h) )
                => LET b == tasks[h].target.name IN
                   /\ outcome' = "Expired"
                   /\ ~has(requests', b)
                   /\ Len(out') = 2
                   /\ NumMsg(out', Msg(tasks[h].sender, "expired", "", Req(b, h))) = 1
                   /\ NumMsg(out', Msg(tasks[h].target, "expired", "", Req(b, h))) = 1
                   /\ h \notin DOMAIN tasks'
          /\ \A i \in 1..Len(out') :
                out'[i].text = "expired"
                => /\ call'.op = "expire"
                   /\ out'[i].req.task = call'.task
                   /\ has(requests, out'[i].req.key)
                   /\ get(requests, out'[i].req.key).task = call'.task
                   /\ ~has(requests', out'[i].req.key)
         ]_vars
    /\ \A n \in Players : has(requests, n) ~> ~has(requests, n)

\* a request expired: both parties were told and the entry is gone
C3_Witness ==
    /\ call.op = "expire" /\ outcome = "Expired"
    /\ Len(out) = 2 /\ out[1].text = "expired" /\ out[2].text = "expired"
    /\ out[1].to # out[2].to
    /\ ~has(requests, out[1].req.key)

\* C4: when a player a quits, every entry whose requester is a is removed
\* and its task cancelled once, each connected target of such an entry gets
\* one "left" message for it, and a /tpaccept or /tpdeny such a target
\* issues next finds no pending request and teleports nobody.
C4_RequesterQuit ==
    [][\A a \in Players :
        /\ (call' = Call("quit", a, <<>>, 0) /\ enabled)
           => /\ \A j \in 1..Len(requests') : requests'[j].requester.name # a
              /\ \A i \in 1..Len(requests) :
                    requests[i].requester.name = a
                    => LET e == requests[i] IN
                       /\ ~has(requests', e.key)
                       /\ NumCancels(cancelled', e.task) = 1
                       /\ e.task \notin DOMAIN tasks'
                       /\ get_player(e.key) # None
                          => NumMsg(out', Msg(Player(e.key), "left", a,
                                              Req(e.key, e.task))) = 1
        /\ \A b \in Players \ {a} :
            ( /\ call = Call("quit", a, <<>>, 0)
              /\ \E i \in 1..Len(out) : out[i].text = "left" /\ out[i].req.key = b
              /\ call' \in {Call("tpaccept", b, <<>>, 0), Call("tpdeny", b, <<>>, 0)} )
            => /\ outcome' = "NoPendingRequest"
               /\ teleports' = <<>>
    ]_vars

\* a player with requests to two targets quit, and both targets were told
C4_Witness ==
    /\ call.op = "quit"
    /\ Cardinality({i \in 1..Len(out) :
                        out[i].text = "left" /\ out[i].req.key # call.who}) >= 2
    /\ Len(cancelled) >= 2

\* C5: when a player b with a pending entry (b -> a) quits, the entry is
\* removed, its task is cancelled and no task for b is left to run, a gets
\* exactly one message about that request, the "left" one; an "expired"
\* message about a key is only sent while that key has an entry; and a b
\* who has just reconnected finds no pending request.
C5_TargetQuit ==
    [][\A b \in Players :
        /\ (call' = Call("quit", b, <<>>, 0) /\ enabled /\ has(requests, b))
           => LET e == get(requests, b) IN
              /\ ~has(requests', b)
              /\ NumCancels(cancelled', e.task) = 1
              /\ \A h \in DOMAIN tasks' :
                    tasks'[h].target.name = b => ~Pending(tasks'[h])
              /\ NumMsg(out', Msg(e.requester, "left", b, Req(b, e.task))) = 1
              /\ Cardinality({i \in 1..Len(out') :
                                out'[i].req = Req(b, e.task)}) = 1
        /\ \A i \in 1..Len(out') :
              (out'[i].text = "expired" /\ out'[i].req.key = b) => has(requests, b)
        /\ ( /\ call = Call("join", b, <<>>, 0)
             /\ call' \in {Call("tpaccept", b, <<>>, 0), Call("tpdeny", b, <<>>, 0)} )
           => /\ outcome' = "NoPendingRequest"
              /\ teleports' = <<>>
    ]_vars

\* a target quit and the requester was told
C5_Witness ==
    /\ call.op = "quit"
    /\ \E i \in 1..Len(out) : out[i].text = "left" /\ out[i].req.key = call.who
    /\ ~has(requests, call.who)

\* C6: /tpa b by x # b while an entry keyed by b exists is DuplicatePending
\* and changes nothing: the dictionary and every task, with the time it has
\* left, are as before, nothing is scheduled or cancelled, b gets no
\* message, and x gets the "already yours" message exactly when the stored
\* requester is x, else the "already has" one.
C6_DuplicatePending ==
    [][\A x \in Players, b \in Players :
        (call' = Call("tpa", x, <<b>>, 0) /\ x # b /\ has(requests, b))
        => LET stored == get(requests, b).requester IN
           /\ outcome' = "DuplicatePending"
           /\ requests' = requests
           /\ tasks' = tasks
           /\ cancelled' = <<>>
           /\ teleports' = <<>>
           /\ (stored = Player(x)) <=> (stored.name = x)
           /\ out' = <<Msg(Player(x),
                           IF stored.name = x THEN "already_yours" ELSE "already_has",
                           "", NoReq)>>
           /\ \A i \in 1..Len(out') : out'[i].to.name # b
    ]_vars

\* a requester repeated a request whose timer had partly run down
C6_Witness ==
    /\ call.op = "tpa" /\ outcome = "DuplicatePending"
    /\ out[1].text = "already_yours"
    /\ has(requests, call.args[1])
    /\ tasks[get(requests, call.args[1]).task].left < ExpiryDelay

\* C7: /tpa a by a is always SelfRequest and leaves the dictionary and the
\* tasks as they were, whatever the dictionary holds; and no entry ever has
\* its requester as key.
C7_NoSelfRequest ==
    /\ [](\A i \in 1..Len(requests) : requests[i].requester.name # requests[i].key)
    /\ [][\A a \in Players :
            call' = Call("tpa", a, <<a>>, 0)
            => /\ outcome' = "SelfRequest"
               /\ requests' = requests
               /\ tasks' = tasks
               /\ cancelled' = <<>>
               /\ teleports' = <<>>
               /\ out' = <<Msg(Player(a), "self", "", NoReq)>>
         ]_vars

\* a player who is a pending target and has a request out asked for
\* themselves
C7_Witness ==
    /\ call.op = "tpa" /\ call.args = <<call.who>> /\ outcome = "SelfRequest"
    /\ has(requests, call.who)
    /\ \E i \in 1..Len(requests) : requests[i].requester.name = call.who

\* C8: /tpaccept and /tpdeny by b with no entry keyed by b are
\* NoPendingRequest and have no effect: the dictionary (also the entries b
\* sent) and the tasks are unchanged, nothing is cancelled, nobody is
\* teleported and only b gets a message.
C8_NoPendingRequest ==
    [][\A b \in Players :
        ( /\ call' \in {Call("tpaccept", b, <<>>, 0), Call("tpdeny", b, <<>>, 0)}
          /\ ~has(requests, b) )
        => /\ outcome' = "NoPendingRequest"
           /\ requests' = requests
           /\ tasks' = tasks
           /\ cancelled' = <<>>
           /\ teleports' = <<>>
           /\ out' = <<Msg(Player(b), "no_pending", "", NoReq)>>
    ]_vars

\* a player with a request out, and none pending for them, accepted or
\* denied
C8_Witness ==
    /\ call.op \in {"tpaccept", "tpdeny"} /\ outcome = "NoPendingRequest"
    /\ \E i \in 1..Len(requests) : requests[i].requester.name = call.who

\* C9: /tpdeny by b with an entry (b -> a) is Denied, removes the entry,
\* cancels its task, tells a and b and teleports nobody; and a step
\* teleports only when it is a /tpaccept by some b whose entry (b -> a) is
\* in the dictionary, and then it teleports a to b, once.
C9_DenyAndTeleport ==
    [][/\ \A b \in Players :
            (call' = Call("tpdeny", b, <<>>, 0) /\ has(requests, b))
            => LET e == get(requests, b) IN
               /\ outcome' = "Denied"
               /\ ~has(requests', b)
               /\ cancelled' = <<[task |-> e.task, was |-> "scheduled"]>>
               /\ e.task \notin DOMAIN tasks'
               /\ out' = <<Msg(e.requester, "denied", b, Req(b, e.task)),
                           Msg(Player(b), "you_denied", e.requester.name,
                               Req(b, e.task))>>
               /\ teleports' = <<>>
       /\ teleports' # <<>>
            => /\ call'.op = "tpaccept"
               /\ outcome' = "Accepted"
               /\ has(requests, call'.who)
               /\ teleports' = <<Teleport(get(requests, call'.who).requester,
                                          Player(call'.who))>>
               /\ ~has(requests', call'.who)
       /\ outcome' = "Accepted" => Len(teleports') = 1
      ]_vars

\* a request was denied
C9_Witness ==
    /\ call.op = "tpdeny" /\ outcome = "Denied"
    /\ teleports = <<>>
    /\ Len(cancelled) = 1
    /\ ~has(requests, call.who)

\* C10: no two entries have the same key; and /tpa c by a, for a connected
\* c # a with no entry keyed by c, is Sent also when a already has a
\* request out: the new entry (c -> a) is added and the others stay.
C10_OneInboundManyOutbound ==
    /\ [](\A i \in 1..Len(requests), j \in 1..Len(requests) :
            requests[i].key = requests[j].key => i = j)
    /\ [][\A a \in Players, c \in Players :
            ( /\ call' = Call("tpa", a, <<c>>, 0)
              /\ a # c /\ online[c] /\ ~has(requests, c)
              /\ \E i \in 1..Len(requests) : requests[i].requester = Player(a) )
            => /\ outcome' = "Sent"
               /\ Len(requests') = Len(requests) + 1
               /\ \A i \in 1..Len(requests) : requests'[i] = requests[i]
               /\ requests'[Len(requests')].key = c
               /\ requests'[Len(requests')].requester = Player(a)
         ]_vars

\* one requester has requests to two targets pending
C10_Witness ==
    /\ call.op = "tpa" /\ outcome = "Sent"
    /\ \E i \in 1..Len(requests), j \in 1..Len(requests) :
        /\ i # j
        /\ requests[i].requester = Player(call.who)
        /\ requests[j].requester = Player(call.who)

\* C11: on_disable cancels the task of every entry, once, clears the
\* dictionary and sends no message; while the plugin is disabled the
\* dictionary is empty, no scheduled task remains and no "expired" message
\* is sent.
C11_Shutdown ==
    [][/\ call' = Call("on_disable", "", <<>>, 0)
            => /\ requests' = <<>>
               /\ out' = <<>>
               /\ teleports' = <<>>
               /\ Len(cancelled') = Len(requests)
               /\ \A i \in 1..Len(requests) :
                    NumCancels(cancelled', requests[i].task) = 1
       /\ ~enabled'
            => /\ requests' = <<>>
               /\ \A h \in DOMAIN tasks' : tasks'[h].state # "scheduled"
               /\ \A i \in 1..Len(out') : out'[i].text # "expired"
      ]_vars

\* the plugin was disabled while two requests or more were pending
C11_Witness ==
    /\ call.op = "on_disable" /\ ~enabled
    /\ Len(cancelled) >= 2
    /\ requests = <<>>

\* C12: when the expire() scheduled for a request (b -> a) runs, it removes
\* the entry keyed by b and tells a and b if that entry exists and its
\* requester is a; if there is no such entry, or its requester is another
\* player, it changes nothing and sends nothing.
C12_ExpiryGuard ==
    [][\A h \in DOMAIN tasks :
        call' = Call("expire", tasks[h].target.name, <<>>, h)
        => LET b == tasks[h].target.name
               a == tasks[h].sender
           IN
           /\ teleports' = <<>>
           /\ cancelled' = <<>>
           /\ \A g \in DOMAIN tasks \ {h} : g \in DOMAIN tasks' /\ tasks'[g] = tasks[g]
           /\ \A n \in keys(requests) \ {b} :
                has(requests', n) /\ get(requests', n) = get(requests, n)
           /\ IF has(requests, b) /\ get(requests, b).requester = a
              THEN /\ outcome' = "Expired"
                   /\ ~has(requests', b)
                   /\ out' = <<Msg(a, "expired", "", Req(b, h)),
                               Msg(tasks[h].target, "expired", "", Req(b, h))>>
              ELSE /\ outcome' = "Stale"
                   /\ requests' = requests
                   /\ out' = <<>>
    ]_vars

\* a cancelled task ran while its target had an entry of another requester
C12_Witness ==
    /\ call.op = "expire" /\ outcome = "Stale"
    /\ has(requests, call.who)
    /\ out = <<>>

\* C13: with a scheduler that may still run a cancelled task, the expire() of
\* a request that was accepted, denied or cancelled by a departure or by
\* on_disable removes no entry and sends nothing, whatever the dictionary
\* holds by then, and every entry keeps its scheduled task.
C13_StaleExpiryHarmless ==
    [][\A h \in DOMAIN tasks :
        ( /\ tasks[h].state = "cancelled"
          /\ call' = Call("expire", tasks[h].target.name, <<>>, h) )
        => /\ requests' = requests
           /\ out' = <<>>
           /\ \A i \in 1..Len(requests) :
                /\ requests[i].task \in DOMAIN tasks'
                /\ tasks'[requests[i].task].state = "scheduled"
    ]_vars

\* the messages that tell a player how a request ended
Terminal == {"accepted", "you_accepted", "denied", "you_denied", "expired", "left"}

\* the messages with which the handler op ends a request
TerminalOf(op) ==
    CASE op = "tpaccept" -> {"accepted", "you_accepted"}
      [] op = "tpdeny" -> {"denied", "you_denied"}
      [] op = "expire" -> {"expired"}
      [] op = "quit" -> {"left"}
      [] OTHER -> {}

\* C14: an entry leaves the dictionary only in a step of /tpaccept, /tpdeny,
\* expire(), on_player_quit or on_disable; the messages that step sends
\* about the request are those of that one event, at most one per player;
\* unless the step is expire() itself, the task of the request is no longer
\* scheduled afterwards, so no expire() follows an accept; and a message
\* that ends a request is only sent in the step that removes its entry.
C14_OneTerminalEvent ==
    [][/\ \A i \in 1..Len(requests) :
            LET e == requests[i]
                r == Req(e.key, e.task)
            IN  ~Entry(requests', e.key, e.requester, e.task)
                => /\ ~has(requests', e.key)
                   /\ call'.op \in {"tpaccept", "tpdeny", "expire", "quit", "on_disable"}
                   /\ outcome' \in {"Accepted", "Denied", "Expired", "Quit", "Disabled"}
                   /\ \A j \in 1..Len(out') :
                        out'[j].req = r => out'[j].text \in TerminalOf(call'.op)
                   /\ \A j, k \in 1..Len(out') :
                        (out'[j].req = r /\ out'[k].req = r /\ out'[j].to = out'[k].to)
                        => j = k
                   /\ e.task \in DOMAIN tasks' => tasks'[e.task].state # "scheduled"
                   /\ call'.op = "expire" => call'.task = e.task
       /\ \A j \in 1..Len(out') :
            out'[j].text \in Terminal
            => \E i \in 1..Len(requests) :
                 /\ Req(requests[i].key, requests[i].task) = out'[j].req
                 /\ ~has(requests', requests[i].key)
    ]_vars

\* a player quit while being the target of one request and the requester of
\* another: both requests ended in that step, each with its own message
C14_Witness ==
    /\ call.op = "quit" /\ outcome = "Quit"
    /\ Len(out) = 2 /\ out[1].text = "left" /\ out[2].text = "left"
    /\ out[1].req.key = call.who /\ out[2].req.key # call.who
    /\ out[1].to # out[2].to
    /\ Len(cancelled) = 2

\* C15: on_player_quit(p) of the enabled plugin leaves no entry with p as key
\* or as requester, also when p is both (the mutual pair p -> q, q -> p
\* included); the task of every removed entry is cancelled exactly once, while
\* scheduled, and nothing else is cancelled; the entries that involve p
\* neither as key nor as requester stay as they are, with their tasks.
C15_BothPasses ==
    [][\A p \in Players :
        (call' = Call("quit", p, <<>>, 0) /\ enabled)
        => LET involved(e) == e.key = p \/ e.requester.name = p
               others(e) == ~involved(e)
               gone == {i \in 1..Len(requests) : involved(requests[i])}
           IN
           /\ \A i \in 1..Len(requests') : ~involved(requests'[i])
           /\ requests' = SelectSeq(requests, others)
           /\ Len(cancelled') = Cardinality(gone)
           /\ \A i \in gone : NumCancels(cancelled', requests[i].task) = 1
           /\ \A i \in 1..Len(requests') :
                /\ requests'[i].task \in DOMAIN tasks'
                /\ tasks'[requests'[i].task] = tasks[requests'[i].task]
    ]_vars

\* a player of a mutual pair quit: both entries are gone, two tasks were
\* cancelled and the other player was told twice
C15_Witness ==
    /\ call.op = "quit" /\ outcome = "Quit"
    /\ Len(cancelled) = 2
    /\ Len(out) = 2 /\ out[1].to = out[2].to
    /\ out[1].req.key = call.who
    /\ out[2].req.key = out[2].to.name
    /\ ~has(requests, call.who) /\ ~has(requests, out[2].to.name)

\* C16: /tpa n by x takes the first branch that applies, in this order: n is
\* not a connected player: PlayerNotFound; n = x: SelfRequest, also when an
\* entry keyed by x exists; an entry keyed by n exists: DuplicatePending;
\* otherwise Sent.  Every branch but Sent leaves the dictionary and the tasks
\* as they were and sends one message, to x.
C16_ValidationOrder ==
    [][\A x \in Players, n \in Players :
        call' = Call("tpa", x, <<n>>, 0)
        => /\ outcome' = IF ~online[n] THEN "PlayerNotFound"
                         ELSE IF n = x THEN "SelfRequest"
                         ELSE IF has(requests, n) THEN "DuplicatePending"
                         ELSE "Sent"
           /\ outcome' # "Sent"
                => /\ requests' = requests
                   /\ tasks' = tasks
                   /\ cancelled' = <<>>
                   /\ teleports' = <<>>
                   /\ Len(out') = 1
                   /\ out'[1].to = Player(x)
                   /\ out'[1].req = NoReq
    ]_vars

\* a target with a pending request asked to teleport to themselves and was
\* refused with SelfRequest; the request is still pending
C16_Witness ==
    /\ call.op = "tpa" /\ outcome = "SelfRequest"
    /\ call.args = <<call.who>>
    /\ has(requests, call.who)
    /\ Live(get(requests, call.who).task)

\* C17: for b # c, /tpa c by b is Sent exactly when c is connected and has no
\* entry, whether or not an entry keyed by b exists, and an entry keyed by b
\* stays as it is; /tpaccept and /tpdeny by b with an entry keyed by b remove
\* that entry only and cancel its task only: every other entry, those that b
\* requested included, stays in place and its task is untouched.
C17_IndependentRoles ==
    [][/\ \A b \in Players, c \in Players :
            (call' = Call("tpa", b, <<c>>, 0) /\ b # c)
            => /\ (outcome' = "Sent") <=> (online[c] /\ ~has(requests, c))
               /\ has(requests, b)
                    => /\ has(requests', b)
                       /\ get(requests', b) = get(requests, b)
                       /\ tasks'[get(requests, b).task] = tasks[get(requests, b).task]
               /\ (outcome' = "Sent" /\ has(requests, b))
                    => /\ has(requests', c)
                       /\ get(requests', c).requester = Player(b)
                       /\ Live(get(requests, b).task)
       /\ \A b \in Players :
            ( /\ call' \in {Call("tpaccept", b, <<>>, 0), Call("tpdeny", b, <<>>, 0)}
              /\ has(requests, b) )
            => LET others(e) == e.key # b IN
               /\ requests' = SelectSeq(requests, others)
               /\ cancelled' = <<[task |-> get(requests, b).task, was |-> "scheduled"]>>
               /\ \A i \in 1..Len(requests) :
                    requests[i].key # b
                    => /\ requests[i].task \in DOMAIN tasks'
                       /\ tasks'[requests[i].task] = tasks[requests[i].task]
    ]_vars

\* one player of a mutual pair accepted: the request of the other is gone,
\* the one the acceptor sent to that player is still pending
C17_Witness ==
    /\ call.op = "tpaccept" /\ outcome = "Accepted"
    /\ Len(teleports) = 1
    /\ ~has(requests, call.who)
    /\ has(requests, teleports[1].who.name)
    /\ get(requests, teleports[1].who.name).requester = Player(call.who)
    /\ Live(get(requests, teleports[1].who.name).task)

\* C18: in every reachable state the key of every entry is a connected
\* player and the stored requester is the Player object of a connected
\* player, so the player /tpaccept teleports, the destination, and whoever
\* on_player_quit tells that a player left, are connected.
C18_PartiesConnected ==
    /\ \A i \in 1..Len(requests) :
        /\ online[requests[i].key]
        /\ online[requests[i].requester.name]
        /\ requests[i].requester = Player(requests[i].requester.name)
    /\ \A i \in 1..Len(teleports) :
        /\ get_player(teleports[i].who.name) = teleports[i].who
        /\ get_player(teleports[i].to.name) = teleports[i].to
    /\ call.op = "quit"
        => \A i \in 1..Len(out) :
             /\ out[i].to.name # call.who
             /\ get_player(out[i].to.name) = out[i].to

\* a player with a request out and a request in left while a third request
\* stays pending: the two players told are connected, and so are the
\* parties of the request that remains
C18_Witness ==
    /\ call.op = "quit" /\ outcome = "Quit"
    /\ ~online[call.who]
    /\ Len(out) = 2
    /\ online[out[1].to.name] /\ online[out[2].to.name]
    /\ requests # <<>>

\* C19: with a scheduler that never runs a cancelled task, every scheduled
\* task has its entry: the entry keyed by its target holds its sender and
\* the task itself; so every expire() that runs finds that entry, removes it
\* and nothing else, and no expire() is ever skipped by the guard.
C19_GuardNeverFails ==
    /\ [](\A h \in DOMAIN tasks :
            tasks[h].state = "scheduled"
            => Entry(requests, tasks[h].target.name, tasks[h].sender, h))
    /\ [](outcome # "Stale")
    /\ [][\A h \in DOMAIN tasks :
            (call'.op = "expire" /\ call'.task = h)
            => LET b == tasks[h].target.name
                   others(e) == e.key # b
               IN
               /\ tasks[h].state = "scheduled"
               /\ Entry(requests, b, tasks[h].sender, h)
               /\ outcome' = "Expired"
               /\ requests' = SelectSeq(requests, others)
               /\ Len(requests') = Len(requests) - 1
         ]_vars

\* a request expired while another one stays pending with its own task
C19_Witness ==
    /\ strict
    /\ call.op = "expire" /\ outcome = "Expired"
    /\ call.task \notin DOMAIN tasks
    /\ Len(requests) >= 1
    /\ \A i \in 1..Len(requests) : Live(requests[i].task)

====
